---- MODULE Spec2Model ----
(***************************************************************************)
(* A model of duplicates/dupe_finder.py: the metric ladder (size, hash of  *)
(* the first 1024 bytes, full MD5), the module-level md5_cache, and the    *)
(* DupeFinder class (file_map, _lookup_dupes, _process_dupes, find_dupes,  *)
(* rescan, dupes).  The file system is an input fixed in Init and never    *)
(* changed afterwards; one process runs up to MaxRuns operations, each on  *)
(* a freshly constructed DupeFinder, all sharing md5_cache.                *)
(***************************************************************************)
EXTENDS Integers, Sequences, FiniteSets, TLC

\* ------------------------------------------------------------------ bounds
\* Number of directory entries that are not directories (f1, f2 live in
\* top/, the others in top/sub/).
MaxFiles == 3

\* Number of DupeFinder operations executed by one process.
MaxRuns == 2

\* Number of FileMetric.next / FileMetric.prev calls a client makes.
MaxCalls == 3

\* ------------------------------------------------------- program constants
MIN_SIZE == 1024

MAX_SIZE == -1

SIZE == 1

HASH_1K == 2

HASH_MD5 == 3

MAX == HASH_MD5

MIN == SIZE

FileMetric == {SIZE, HASH_1K, HASH_MD5}

\* FileMetric.next going straight to the top level.
FileMetric_next_skips(m) == MAX

\* FileMetric.next: the metric one level up, MAX stays MAX.
FileMetric_next(m) == IF m = MAX THEN m ELSE m + 1

\* FileMetric.next, line 21: the saturated result is self.value, a plain
\* integer (equal to the member), any other result is a member.
FileMetric_next_type(m) == IF m = MAX THEN "int" ELSE "FileMetric"

\* FileMetric.prev wrapping around at the bottom of the ladder.
FileMetric_prev_wraps(m) == IF m = MIN THEN MAX ELSE m - 1

\* FileMetric.prev: the metric one level down, MIN stays MIN.
FileMetric_prev(m) == IF m = MIN THEN m ELSE m - 1

\* FileMetric.prev, line 30: as for next, the saturated result is self.value.
FileMetric_prev_type(m) == IF m = MIN THEN "int" ELSE "FileMetric"

\* ------------------------------------------------------------- file system
\* Paths are sequences of names, relative to the working directory.
Cwd == <<"/", "work">>

Top == <<"top">>

Sub == <<"top", "sub">>

\* top/lnk is a symbolic link to the directory top/sub.
Lnk == <<"top", "lnk">>

\* A path that does not exist.
Missing == <<"nope">>

Names == <<"f1", "f2", "f3", "f4", "f5", "f6">>

ParentOf(i) == IF i <= 2 THEN Top ELSE Sub

FilePathOf(i) == Append(ParentOf(i), Names[i])

FilePaths == {FilePathOf(i) : i \in 1..MaxFiles}

AllPaths == {Top, Sub, Lnk} \cup FilePaths

\* The bytes of a file: their number, an identifier of the first
\* min(size, MIN_SIZE) bytes and an identifier of the bytes after them
\* (0 when there are none).
Bytes(size, head, tail) == [size |-> size, head |-> head, tail |-> tail]

Contents ==
  { Bytes(1024, 1, 0), Bytes(1024, 2, 0),
    Bytes(2048, 1, 1), Bytes(2048, 1, 2), Bytes(2048, 2, 1) }

RegularFile(c, r) ==
  [kind |-> "file", lsize |-> c.size, content |-> c, readable |-> r,
   target |-> <<>>]

\* A symbolic link to a regular file outside the scanned tree; lsize is the
\* size lstat reports for the link itself.
SymlinkToFile ==
  [kind |-> "symlink", lsize |-> 7, content |-> Bytes(2048, 1, 1),
   readable |-> TRUE, target |-> <<"other", "t">>]

\* A directory entry that is neither a directory, a regular file nor a link.
Fifo ==
  [kind |-> "fifo", lsize |-> 0, content |-> Bytes(0, 0, 0),
   readable |-> TRUE, target |-> <<>>]

\* The kinds of entry a file name can denote, in a fixed order.
NodeList ==
  << RegularFile(Bytes(1024, 1, 0), TRUE),
     RegularFile(Bytes(1024, 2, 0), TRUE),
     RegularFile(Bytes(2048, 1, 1), TRUE),
     RegularFile(Bytes(2048, 1, 2), TRUE),
     RegularFile(Bytes(2048, 2, 1), TRUE),
     RegularFile(Bytes(2048, 1, 1), FALSE),
     SymlinkToFile,
     Fifo >>

\* The arguments given to find_dupes.
RootLists ==
  { <<Top>>, <<Sub, Sub>>, <<Sub, Top>>, <<Top, Lnk>>, <<Top, Missing>> }

VARIABLES
  fs,          \* file path -> node (the tree being scanned; never changes)
  roots,       \* the search_dirs argument of find_dupes
  run,         \* number of the operation in progress, 1..MaxRuns
  op,          \* "find_dupes" or "rescan"
  pc,          \* "call", "process", "returned", "raised"
  error,       \* the exception that ended the operation, or "none"
  search_dirs, \* the work list of _process_dupes
  dirIdx,      \* position of the for loop over search_dirs (0 = not begun)
  remaining,   \* entries iterdir has not yet yielded for search_dirs[dirIdx]
  stack,       \* pending _lookup_dupes calls, innermost first
  file_map,    \* DupeFinder.file_map: metric -> ordered dict measure -> list
  md5_cache,   \* the module-level md5_cache: path -> digest
  result,      \* the list returned by the operation
  prev,        \* outcome of the previous operation of this process
  evals,       \* <<path, metric>> -> number of metrics[metric](path) calls
  hashed,      \* <<path, chunk_size>> pairs passed to _calc_md5_hash
  lookups,     \* the top-level _lookup_dupes calls of this operation, in order
  iterated,    \* the directories iterdir was called on, in order
  calls,       \* the FileMetric.next / prev calls of a client, with results
  args,        \* main: the parsed command line
  in_file_dupes, \* main: the list _read_dupes returns for args.in_file
  mpc,         \* main: "idle", "parse", "check", "work", "scan", "filter",
               \*       "output", "done", "exit", "raised"
  merror,      \* main: the exception that ended main, or "none"
  dupes,       \* main: the local variable dupes
  resolve_fn,  \* main: "identity" or "_resolve_to_cwd"
  filtered_dupes, \* main: the local variable filtered_dupes
  written,     \* main: what _output_dupes wrote, <<>> before
  events       \* main: the work started so far, in order

\* The state of a DupeFinder operation and of the module dupe_finder
finderVars ==
  << fs, roots, run, op, pc, error, search_dirs, dirIdx, remaining, stack,
     file_map, md5_cache, result, prev, evals, hashed, lookups, iterated >>

\* The state of main
mainVars ==
  << args, in_file_dupes, mpc, merror, dupes, resolve_fn, filtered_dupes,
     written, events >>

vars == << finderVars, calls, mainVars >>

\* --------------------------------------------------------- pathlib queries
\* Path.is_symlink
IsSymlink(p) ==
  \/ p = Lnk
  \/ p \in FilePaths /\ fs[p].kind = "symlink"

\* Path.is_dir, which follows symbolic links
IsDir(p) == p \in {Top, Sub, Lnk}

\* Path.is_file, which follows symbolic links
IsFile(p) ==
  /\ p \in FilePaths
  /\ fs[p].kind \in {"file", "symlink"}

\* Path.iterdir: the entries of a directory (yielded in arbitrary order)
IterDir(d) ==
  { p \in AllPaths : Len(p) = Len(d) + 1 /\ SubSeq(p, 1, Len(d)) = d }

\* str(Path.resolve()): absolute, with a final symbolic link replaced by
\* its target
Resolve(p) ==
  IF p \in FilePaths /\ fs[p].kind = "symlink"
    THEN Cwd \o fs[p].target
    ELSE IF p = Lnk THEN Cwd \o Sub ELSE Cwd \o p

\* ----------------------------------------------------------- metric ladder
\* file.read(chunk_size) on the file's bytes
Read(c, chunk_size) ==
  IF chunk_size = -1 \/ chunk_size >= c.size
    THEN c
    ELSE Bytes(chunk_size, c.head, 0)

\* hashlib.md5(data).hexdigest(), taken to be collision free
Md5(data) == [md5 |-> data]

\* _file_size
FileSize(file) == fs[file].lsize

\* _calc_md5_hash (the caller has checked that the file can be opened)
CalcMd5Hash(chunk_size, file) == Md5(Read(fs[file].content, chunk_size))

\* Whether _md5_hash reads the whole file and stores the digest in the cache
Md5HashIsFull(chunk_size, file) ==
  chunk_size = -1 \/ chunk_size >= fs[file].content.size

\* _md5_hash: the value returned
Md5Hash(chunk_size, file, cache) ==
  IF file \in DOMAIN cache
    THEN cache[file]
    ELSE IF Md5HashIsFull(chunk_size, file)
      THEN CalcMd5Hash(-1, file)
      ELSE CalcMd5Hash(chunk_size, file)

\* _md5_hash: the cache after the call
Md5HashCache(chunk_size, file, cache) ==
  IF file \notin DOMAIN cache /\ Md5HashIsFull(chunk_size, file)
    THEN (file :> CalcMd5Hash(-1, file)) @@ cache
    ELSE cache

\* _md5_hash: the _calc_md5_hash calls it makes
Md5HashReads(chunk_size, file, cache) ==
  IF file \in DOMAIN cache
    THEN {}
    ELSE IF Md5HashIsFull(chunk_size, file)
      THEN {<<file, -1>>}
      ELSE {<<file, chunk_size>>}

\* The chunk size bound into metrics[metric] by functools.partial
ChunkOf(metric) == IF metric = HASH_1K THEN MIN_SIZE ELSE MAX_SIZE

\* metrics[metric](file) raises: open() fails on a file that cannot be read
MetricRaises(metric, file, cache) ==
  /\ metric # SIZE
  /\ file \notin DOMAIN cache
  /\ ~fs[file].readable

\* metrics[metric](file): the measure
Measure(metric, file, cache) ==
  IF metric = SIZE
    THEN FileSize(file)
    ELSE Md5Hash(ChunkOf(metric), file, cache)

\* -------------------------------------------------------------- DupeFinder
\* self.file_map.get(metric, {}): an ordered dict, as a sequence of
\* [measure, files] items in insertion order
MetricMap(fm, metric) == IF metric \in DOMAIN fm THEN fm[metric] ELSE <<>>

\* Position of the item with this measure in an ordered dict, 0 if absent
IndexOf(mm, measure) ==
  IF \E k \in DOMAIN mm : mm[k].measure = measure
    THEN CHOOSE k \in DOMAIN mm : mm[k].measure = measure
    ELSE 0

\* DupeFinder._insert_into_metric_map: file_map after the insertion
InsertIntoMetricMap(fm, metric, measure, file) ==
  LET mm == MetricMap(fm, metric)
      k  == IndexOf(mm, measure)
      mm2 == IF k = 0
               THEN Append(mm, [measure |-> measure, files |-> <<file>>])
               ELSE [mm EXCEPT ![k].files = Append(@, file)]
  IN  (metric :> mm2) @@ fm

\* DupeFinder._insert_into_metric_map: the list it returns
SimilarFiles(fm, metric, measure) ==
  fm[metric][IndexOf(fm[metric], measure)].files

\* A pending call _lookup_dupes(file, metric) at the given recursion depth
Call(file, metric, depth) == [file |-> file, metric |-> metric, depth |-> depth]

\* _lookup_dupes without the is_symlink test of lines 68-70.
IgnoredNotFile(file) == ~IsFile(file)

\* _lookup_dupes, lines 68-74: the entry is ignored
Ignored(file) == IsSymlink(file) \/ ~IsFile(file)

\* _lookup_dupes without line 83: the earlier member of a list that has
\* just reached two entries is not escalated.
EscalationSelfOnly(similar_files, file, metric, depth) ==
  IF Len(similar_files) > 1 /\ metric # MAX
    THEN <<Call(file, FileMetric_next(metric), depth + 1)>>
    ELSE <<>>

\* _lookup_dupes with line 79 testing len(similar_files) > 0: a file is
\* escalated although nothing collides with it.
EscalationAlways(similar_files, file, metric, depth) ==
  IF Len(similar_files) > 0 /\ metric # MAX
    THEN (IF Len(similar_files) = 2
            THEN <<Call(similar_files[1], FileMetric_next(metric), depth + 1)>>
            ELSE <<>>)
         \o <<Call(file, FileMetric_next(metric), depth + 1)>>
    ELSE <<>>

\* _lookup_dupes without line 84: the file just inserted is not escalated.
EscalationFirstOnly(similar_files, file, metric, depth) ==
  IF Len(similar_files) > 1 /\ metric # MAX /\ Len(similar_files) = 2
    THEN <<Call(similar_files[1], FileMetric_next(metric), depth + 1)>>
    ELSE <<>>

\* _lookup_dupes without the test of line 82: the first member of the list
\* is escalated again on every later collision.
EscalationFirstEveryTime(similar_files, file, metric, depth) ==
  IF Len(similar_files) > 1 /\ metric # MAX
    THEN <<Call(similar_files[1], FileMetric_next(metric), depth + 1),
           Call(file, FileMetric_next(metric), depth + 1)>>
    ELSE <<>>

\* _lookup_dupes with lines 83 and 84 exchanged: the new file is escalated
\* before the first member of the list.
EscalationSelfFirst(similar_files, file, metric, depth) ==
  IF Len(similar_files) > 1 /\ metric # MAX
    THEN <<Call(file, FileMetric_next(metric), depth + 1)>>
         \o (IF Len(similar_files) = 2
              THEN <<Call(similar_files[1], FileMetric_next(metric), depth + 1)>>
              ELSE <<>>)
    ELSE <<>>

\* _lookup_dupes without the test of line 80: escalation does not stop at
\* the top metric.
EscalationPastMax(similar_files, file, metric, depth) ==
  IF Len(similar_files) > 1
    THEN (IF Len(similar_files) = 2
            THEN <<Call(similar_files[1], FileMetric_next(metric), depth + 1)>>
            ELSE <<>>)
         \o <<Call(file, FileMetric_next(metric), depth + 1)>>
    ELSE <<>>

\* _lookup_dupes, lines 79-84: the recursive calls made after the insertion,
\* in the order they are made
Escalation(similar_files, file, metric, depth) ==
  IF Len(similar_files) > 1 /\ metric # MAX
    THEN (IF Len(similar_files) = 2
            THEN <<Call(similar_files[1], FileMetric_next(metric), depth + 1)>>
            ELSE <<>>)
         \o <<Call(file, FileMetric_next(metric), depth + 1)>>
    ELSE <<>>

\* DupeFinder.dupes
Dupes(fm) ==
  LET mm == MetricMap(fm, MAX)
  IN  [k \in DOMAIN mm |->
        [j \in DOMAIN mm[k].files |-> Resolve(mm[k].files[j])]]

\* enumerate(list): pairs (index from 0, element)
Enumerate(s) == [k \in DOMAIN s |-> <<k - 1, s[k]>>]

\* rescan, line 117: the value bound to the loop variable named item, which
\* is the first component of the pair enumerate yields
RescanItem(pair) == pair[1]

\* Path(x) raises TypeError unless x is a string (or path-like)
PathRaises(x) == x \in Int

\* The assertion of find_dupes without its is_symlink half.
RootOkNoSymlinkTest(path) == IsDir(path)

\* find_dupes, lines 104-107: the assertion on one root
RootOk(path) == IsDir(path) /\ ~IsSymlink(path)

NoEvals == [x \in FilePaths \X FileMetric |-> 0]

NoPrev == [pc |-> "none", op |-> "none", result |-> <<>>]

\* --------------------------------------------------------- main's inputs
\* A --filter-pattern: whether one was given and the set of path strings
\* re.search finds it in. None and the empty string are both "not given"
\* (line 314 tests the truth of the string).
Pattern(given, matches) == [given |-> given, matches |-> matches]

NoPattern == Pattern(FALSE, {})

\* The command line before main has read it: no directory, no input file,
\* no output file, and the argparse defaults (lines 262-273) for the rest.
\* rescan, filter_pattern and out_type are fixed when main first reads
\* them; no earlier step can observe them.
NoArgs ==
  [search_dir |-> <<>>, in_file |-> "none", out_file |-> "none",
   rescan |-> FALSE, filter_pattern |-> NoPattern, out_type |-> "PLAIN"]

\* main is not running
MainIdle ==
  /\ args = NoArgs
  /\ in_file_dupes = <<>>
  /\ mpc = "idle"
  /\ merror = "none"
  /\ dupes = <<>>
  /\ resolve_fn = "identity"
  /\ filtered_dupes = <<>>
  /\ written = <<>>
  /\ events = <<>>

\* ------------------------------------------------------------------- Init
\* Any assignment of entry kinds to the file names (names in one directory
\* are interchangeable, so only nondecreasing assignments per directory are
\* taken), any root list, an empty cache and a fresh DupeFinder on which
\* find_dupes is about to be called.
Init ==
  /\ \E idx \in [1..MaxFiles -> DOMAIN NodeList] :
       /\ \A i, j \in 1..MaxFiles :
            (i < j /\ ParentOf(i) = ParentOf(j)) => idx[i] <= idx[j]
       /\ fs = [p \in FilePaths |->
                 NodeList[idx[CHOOSE i \in 1..MaxFiles : FilePathOf(i) = p]]]
  /\ roots \in RootLists
  /\ run = 1
  /\ op = "find_dupes"
  /\ pc = "call"
  /\ error = "none"
  /\ search_dirs = <<>>
  /\ dirIdx = 0
  /\ remaining = {}
  /\ stack = <<>>
  /\ file_map = <<>>
  /\ md5_cache = <<>>
  /\ result = <<>>
  /\ prev = NoPrev
  /\ evals = NoEvals
  /\ hashed = {}
  /\ lookups = <<>>
  /\ iterated = <<>>
  /\ calls = <<>>
  /\ MainIdle

\* ---------------------------------------------------------------- actions
\* find_dupes, lines 102-109: the assertions on the roots, then the call of
\* _process_dupes
FindDupes ==
  /\ pc = "call" /\ op = "find_dupes"
  /\ IF \A k \in DOMAIN roots : RootOk(roots[k])
       THEN /\ pc' = "process"
            /\ search_dirs' = roots
            /\ error' = error
       ELSE /\ pc' = "raised"
            /\ error' = "AssertionError"
            /\ search_dirs' = search_dirs
  /\ UNCHANGED << calls, mainVars >>
  /\ UNCHANGED << fs, roots, run, op, dirIdx, remaining, stack, file_map,
                  md5_cache, result, prev, evals, hashed, lookups, iterated >>

\* _process_dupes, lines 87-92: the for loop takes the next work-list item;
\* a symbolic link is skipped, any other directory is listed
NextSearchDir ==
  /\ pc = "process" /\ stack = <<>> /\ remaining = {}
  /\ dirIdx < Len(search_dirs)
  /\ dirIdx' = dirIdx + 1
  /\ LET search_dir == search_dirs[dirIdx + 1] IN
       IF IsSymlink(search_dir)
         THEN UNCHANGED << remaining, iterated >>
         ELSE /\ remaining' = IterDir(search_dir)
              /\ iterated' = Append(iterated, search_dir)
  /\ UNCHANGED << calls, mainVars >>
  /\ UNCHANGED << fs, roots, run, op, pc, error, search_dirs, stack,
                  file_map, md5_cache, result, prev, evals, hashed, lookups >>

\* _process_dupes, lines 92-96: iterdir yields one more entry; a directory
\* is appended to the work list, anything else is looked up from MIN
IterEntry ==
  /\ pc = "process" /\ stack = <<>>
  /\ \E i \in remaining :
       /\ remaining' = remaining \ {i}
       /\ IF IsDir(i)
            THEN /\ search_dirs' = Append(search_dirs, i)
                 /\ UNCHANGED << stack, lookups >>
            ELSE /\ stack' = <<Call(i, MIN, 1)>>
                 /\ lookups' = Append(lookups, i)
                 /\ search_dirs' = search_dirs
  /\ UNCHANGED << calls, mainVars >>
  /\ UNCHANGED << fs, roots, run, op, pc, error, dirIdx, file_map,
                  md5_cache, result, prev, evals, hashed, iterated >>

\* One call of _lookup_dupes, lines 67-84, up to its recursive calls: the
\* two early returns, the evaluation of the metric (which may raise), the
\* insertion, and the recursive calls left pending on top of the stack
LookupDupes ==
  /\ pc = "process" /\ stack # <<>>
  /\ LET c == Head(stack)
         file == c.file
         metric == c.metric
     IN
       IF Ignored(file)
         THEN /\ stack' = Tail(stack)
              /\ UNCHANGED << pc, error, file_map, md5_cache, evals, hashed >>
         ELSE IF MetricRaises(metric, file, md5_cache)
           THEN /\ pc' = "raised"
                /\ error' = "PermissionError"
                /\ stack' = <<>>
                /\ evals' = [evals EXCEPT ![<<file, metric>>] = @ + 1]
                /\ UNCHANGED << file_map, md5_cache, hashed >>
           ELSE LET measure == Measure(metric, file, md5_cache)
                    fm == InsertIntoMetricMap(file_map, metric, measure, file)
                    similar_files == SimilarFiles(fm, metric, measure)
                IN  /\ file_map' = fm
                    /\ evals' = [evals EXCEPT ![<<file, metric>>] = @ + 1]
                    /\ md5_cache' =
                         IF metric = SIZE THEN md5_cache
                         ELSE Md5HashCache(ChunkOf(metric), file, md5_cache)
                    /\ hashed' =
                         IF metric = SIZE THEN hashed
                         ELSE hashed \cup
                                Md5HashReads(ChunkOf(metric), file, md5_cache)
                    /\ stack' = Escalation(similar_files, file, metric, c.depth)
                                  \o Tail(stack)
                    /\ UNCHANGED << pc, error >>
  /\ UNCHANGED << calls, mainVars >>
  /\ UNCHANGED << fs, roots, run, op, search_dirs, dirIdx, remaining,
                  result, prev, lookups, iterated >>

\* find_dupes, line 110: _process_dupes has exhausted the work list and the
\* dupes property is returned
ReturnDupes ==
  /\ pc = "process" /\ stack = <<>> /\ remaining = {}
  /\ dirIdx = Len(search_dirs)
  /\ pc' = "returned"
  /\ result' = Dupes(file_map)
  /\ UNCHANGED << calls, mainVars >>
  /\ UNCHANGED << fs, roots, run, op, error, search_dirs, dirIdx, remaining,
                  stack, file_map, md5_cache, prev, evals, hashed, lookups,
                  iterated >>

\* rescan, lines 116-120, called with the list the previous find_dupes
\* returned: the first pass of the inner loop evaluates Path(item) with item
\* bound to the index, which raises; with no item at all dupes is returned
Rescan ==
  /\ pc = "call" /\ op = "rescan"
  /\ LET old_dupes == prev.result
         nonempty == { g \in DOMAIN old_dupes : old_dupes[g] # <<>> }
     IN
       IF nonempty = {}
         THEN /\ pc' = "returned"
              /\ result' = Dupes(file_map)
              /\ error' = error
         ELSE LET g == CHOOSE x \in nonempty : \A y \in nonempty : x <= y
                  item == RescanItem(Enumerate(old_dupes[g])[1])
              IN  /\ PathRaises(item)
                  /\ pc' = "raised"
                  /\ error' = "TypeError"
                  /\ result' = result
  /\ UNCHANGED << calls, mainVars >>
  /\ UNCHANGED << fs, roots, run, op, search_dirs, dirIdx, remaining, stack,
                  file_map, md5_cache, prev, evals, hashed, lookups, iterated >>

\* The process constructs another DupeFinder (line 50-52) and calls
\* find_dupes with the same roots, or rescan with the list just returned by
\* find_dupes; md5_cache is module state and is kept
NewFinder ==
  /\ pc \in {"returned", "raised"}
  /\ run < MaxRuns
  /\ run' = run + 1
  /\ \E o \in {"find_dupes", "rescan"} :
       /\ o = "rescan" => (pc = "returned" /\ op = "find_dupes")
       /\ op' = o
  /\ prev' = [pc |-> pc, op |-> op, result |-> result]
  /\ pc' = "call"
  /\ error' = "none"
  /\ search_dirs' = <<>>
  /\ dirIdx' = 0
  /\ remaining' = {}
  /\ stack' = <<>>
  /\ file_map' = <<>>
  /\ result' = <<>>
  /\ evals' = NoEvals
  /\ hashed' = {}
  /\ lookups' = <<>>
  /\ iterated' = <<>>
  /\ UNCHANGED << calls, mainVars >>
  /\ UNCHANGED << fs, roots, md5_cache >>

Next ==
  \/ FindDupes
  \/ NextSearchDir
  \/ IterEntry
  \/ LookupDupes
  \/ ReturnDupes
  \/ Rescan
  \/ NewFinder

Spec == Init /\ [][Next]_vars

\* The interpreter keeps executing the operation in progress: a step of
\* find_dupes, _process_dupes, _lookup_dupes or rescan that can be taken is
\* eventually taken. Constructing another DupeFinder is up to the caller.
FairSpec ==
  Spec /\ WF_vars(FindDupes \/ NextSearchDir \/ IterEntry \/ LookupDupes
                    \/ ReturnDupes \/ Rescan)

\* ------------------------------------------------- a client of FileMetric
\* No DupeFinder exists: a tree of fifos, nothing scanned, nothing cached
FinderIdle ==
  /\ fs = [p \in FilePaths |-> Fifo]
  /\ roots = <<>>
  /\ run = 1
  /\ op = "none"
  /\ pc = "idle"
  /\ error = "none"
  /\ search_dirs = <<>>
  /\ dirIdx = 0
  /\ remaining = {}
  /\ stack = <<>>
  /\ file_map = <<>>
  /\ md5_cache = <<>>
  /\ result = <<>>
  /\ prev = NoPrev
  /\ evals = NoEvals
  /\ hashed = {}
  /\ lookups = <<>>
  /\ iterated = <<>>

InitLadder ==
  /\ FinderIdle
  /\ MainIdle
  /\ calls = <<>>

\* One call record: the method, the member it is called on, the value
\* returned and the type of the returned object
CallRecord(fn, m, value, type) ==
  [fn |-> fn, m |-> m, value |-> value, type |-> type]

\* m.next() for a member m of FileMetric, lines 15-22
CallNext ==
  /\ Len(calls) < MaxCalls
  /\ \E m \in FileMetric :
       calls' = Append(calls, CallRecord("next", m, FileMetric_next(m),
                                         FileMetric_next_type(m)))
  /\ UNCHANGED << finderVars, mainVars >>

\* m.prev() for a member m of FileMetric, lines 24-31
CallPrev ==
  /\ Len(calls) < MaxCalls
  /\ \E m \in FileMetric :
       calls' = Append(calls, CallRecord("prev", m, FileMetric_prev(m),
                                         FileMetric_prev_type(m)))
  /\ UNCHANGED << finderVars, mainVars >>

NextLadder == CallNext \/ CallPrev

SpecLadder == InitLadder /\ [][NextLadder]_vars

\* ----------------------------------------------------------------- main.py
\* main.py carries its own copy of the ladder and of DupeFinder (lines
\* 73-215), the same code as dupe_finder.py; the actions above model both.

\* Path strings an input file holds: one relative, two absolute
InA == <<"top", "f1">>

InB == Cwd \o <<"top", "f2">>

InC == Cwd \o <<"top", "sub", "f3">>

\* What _read_dupes can return (lines 55-70): lists of lists of strings.
\* The file is well formed; CSV and JSON are not distinguished.
InFileDupes ==
  { <<>>,
    << <<>> >>,
    << <<InB>> >>,
    << <<InA, InB>> >>,
    << <<InB, InB>> >>,
    << <<InA, InB, InC>> >>,
    << <<InA, InB>>, <<InB, InC>> >> }

\* The strings a pattern is searched in
PathStrings == { Cwd \o p : p \in FilePaths } \cup {InA, InB, InC}

\* The values of --filter-pattern, by the strings they match
Patterns == {NoPattern} \cup { Pattern(TRUE, m) : m \in SUBSET PathStrings }

\* Path.is_absolute
IsAbsolute(path) == path # <<>> /\ path[1] = "/"

\* _resolve_path_to_dir, lines 237-238
ResolvePathToDir(root, path) == IF IsAbsolute(path) THEN path ELSE root \o path

\* _resolve_to_cwd, lines 241-255
RECURSIVE ResolveToCwd(_)
ResolveToCwd(ds) ==
  IF ds = <<>> THEN <<>>
  ELSE LET dupe_list == Head(ds)
           resolved_dupe_list ==
             [k \in DOMAIN dupe_list |-> ResolvePathToDir(Cwd, dupe_list[k])]
       IN  (IF resolved_dupe_list # <<>> THEN <<resolved_dupe_list>> ELSE <<>>)
           \o ResolveToCwd(Tail(ds))

\* _filter, lines 221-232: what one pass of the loop appends to filtered
\* for dupe_list, as a list of zero or one lists
FilterDupeList(dupe_list, pattern) ==
  IF Len(dupe_list) < 2 THEN <<>>
  ELSE LET Matches(i) == i \in pattern.matches
           filtered_dupe_list == SelectSeq(dupe_list, Matches)
       IN  IF filtered_dupe_list = <<>> THEN <<>>
           ELSE IF Len(filtered_dupe_list) = Len(dupe_list)
             THEN <<SubSeq(filtered_dupe_list, 1, Len(filtered_dupe_list) - 1)>>
             ELSE <<filtered_dupe_list>>

\* _filter, lines 218-234
RECURSIVE Filter(_, _)
Filter(ds, pattern) ==
  IF ds = <<>> THEN <<>>
  ELSE FilterDupeList(Head(ds), pattern) \o Filter(Tail(ds), pattern)

\* main, lines 291-296, with the second assertion left out
ChecksPassNoOutFileTest(a) == ~(a.search_dir # <<>> /\ a.in_file # "none")

\* main, lines 291-296: the two assertions hold
ChecksPass(a) ==
  /\ ~(a.search_dir # <<>> /\ a.in_file # "none")
  /\ a.out_file # "exists"

\* The finder variables no step of main itself assigns
finderRest ==
  << fs, roots, run, error, search_dirs, dirIdx, remaining, stack, file_map,
     md5_cache, result, evals, hashed, lookups, iterated >>

\* A process about to run main: a command line, the tree (when directories
\* are to be searched) or the content of the input file, and whether the
\* output path exists
InitMain ==
  /\ \E sd \in {<<>>} \cup RootLists :
     \E inf \in {"none", "absent", "present"} :
     \E outf \in {"none", "fresh", "exists"} :
       /\ args = [NoArgs EXCEPT !.search_dir = sd, !.in_file = inf,
                                !.out_file = outf]
       /\ roots = sd
       /\ IF inf = "present"
            THEN in_file_dupes \in InFileDupes
            ELSE in_file_dupes = <<>>
       /\ IF inf = "none" /\ sd # <<>>
            THEN \E idx \in [1..MaxFiles -> DOMAIN NodeList] :
                   /\ \A i, j \in 1..MaxFiles :
                        (i < j /\ ParentOf(i) = ParentOf(j)) => idx[i] <= idx[j]
                   /\ fs = [p \in FilePaths |->
                             NodeList[idx[CHOOSE i \in 1..MaxFiles :
                                            FilePathOf(i) = p]]]
            ELSE fs = [p \in FilePaths |-> Fifo]
  /\ run = 1
  /\ op = "none"
  /\ pc = "idle"
  /\ error = "none"
  /\ search_dirs = <<>>
  /\ dirIdx = 0
  /\ remaining = {}
  /\ stack = <<>>
  /\ file_map = <<>>
  /\ md5_cache = <<>>
  /\ result = <<>>
  /\ prev = NoPrev
  /\ evals = NoEvals
  /\ hashed = {}
  /\ lookups = <<>>
  /\ iterated = <<>>
  /\ calls = <<>>
  /\ mpc = "parse"
  /\ merror = "none"
  /\ dupes = <<>>
  /\ resolve_fn = "identity"
  /\ filtered_dupes = <<>>
  /\ written = <<>>
  /\ events = <<>>

\* _parse_args, lines 275-280: with neither a directory nor an input file
\* the help is printed and the process exits with status 1
ParseArgs ==
  /\ mpc = "parse"
  /\ mpc' = IF args.search_dir = <<>> /\ args.in_file = "none"
              THEN "exit" ELSE "check"
  /\ UNCHANGED << finderVars, calls, args, in_file_dupes, merror, dupes,
                  resolve_fn, filtered_dupes, written, events >>

\* main, lines 291-296: the two assertions
MainChecks ==
  /\ mpc = "check"
  /\ IF ChecksPass(args)
       THEN mpc' = "work" /\ merror' = merror
       ELSE mpc' = "raised" /\ merror' = "AssertionError"
  /\ UNCHANGED << finderVars, calls, args, in_file_dupes, dupes,
                  resolve_fn, filtered_dupes, written, events >>

\* main, lines 302-309: the input file is read (which raises when it does
\* not exist); without --rescan its list is taken as it is, with --rescan a
\* new DupeFinder is handed the list
MainReadDupes ==
  /\ mpc = "work" /\ args.in_file # "none"
  /\ IF args.in_file = "absent"
       THEN /\ mpc' = "raised"
            /\ merror' = "FileNotFoundError"
            /\ events' = Append(events, "read")
            /\ UNCHANGED << args, dupes, resolve_fn, op, pc, prev >>
       ELSE \E r \in BOOLEAN :
              /\ args' = [args EXCEPT !.rescan = r]
              /\ merror' = merror
              /\ IF ~r
                   THEN /\ dupes' = in_file_dupes
                        /\ resolve_fn' = "_resolve_to_cwd"
                        /\ mpc' = "filter"
                        /\ events' = Append(events, "read")
                        /\ UNCHANGED << op, pc, prev >>
                   ELSE /\ mpc' = "scan"
                        /\ op' = "rescan"
                        /\ pc' = "call"
                        /\ prev' = [NoPrev EXCEPT !.result = in_file_dupes]
                        /\ events' = events \o <<"read", "rescan">>
                        /\ UNCHANGED << dupes, resolve_fn >>
  /\ UNCHANGED << finderRest, calls, in_file_dupes, filtered_dupes, written >>

\* main, line 311: a new DupeFinder is asked for the duplicates below
\* args.search_dir
MainFindDupes ==
  /\ mpc = "work" /\ args.in_file = "none"
  /\ mpc' = "scan"
  /\ op' = "find_dupes"
  /\ pc' = "call"
  /\ events' = Append(events, "scan")
  /\ UNCHANGED << finderRest, prev, calls, args, in_file_dupes, merror, dupes,
                  resolve_fn, filtered_dupes, written >>

\* main, lines 309 and 311: rescan or find_dupes returns its list, or its
\* exception leaves main
MainScanReturns ==
  /\ mpc = "scan" /\ pc \in {"returned", "raised"}
  /\ IF pc = "returned"
       THEN /\ dupes' = result
            /\ mpc' = "filter"
            /\ merror' = merror
       ELSE /\ mpc' = "raised"
            /\ merror' = error
            /\ dupes' = dupes
  /\ UNCHANGED << finderVars, calls, args, in_file_dupes, resolve_fn,
                  filtered_dupes, written, events >>

\* main, line 314: the groups are filtered when a pattern was given
MainFilter ==
  /\ mpc = "filter"
  /\ \E pattern \in Patterns :
       /\ args' = [args EXCEPT !.filter_pattern = pattern]
       /\ filtered_dupes' =
            IF pattern.given THEN Filter(dupes, pattern) ELSE dupes
  /\ mpc' = "output"
  /\ UNCHANGED << finderVars, calls, in_file_dupes, merror, dupes,
                  resolve_fn, written, events >>

\* main, lines 315-317: the filtered groups are resolved and written in the
\* chosen format; the CSV writer raises on an empty list (max of no
\* lengths, line 31) before it writes anything. The text of each format is
\* not modelled, written holds the list handed to the writer.
MainOutput ==
  /\ mpc = "output"
  /\ \E out_type \in {"CSV", "JSON", "PLAIN"} :
       LET resolved_dupes ==
             IF resolve_fn = "_resolve_to_cwd"
               THEN ResolveToCwd(filtered_dupes) ELSE filtered_dupes
       IN  /\ args' = [args EXCEPT !.out_type = out_type]
           /\ events' = Append(events, "write")
           /\ IF out_type = "CSV" /\ resolved_dupes = <<>>
                THEN /\ mpc' = "raised"
                     /\ merror' = "ValueError"
                     /\ written' = written
                ELSE /\ mpc' = "done"
                     /\ merror' = merror
                     /\ written' = <<resolved_dupes>>
  /\ UNCHANGED << finderVars, calls, in_file_dupes, dupes, resolve_fn,
                  filtered_dupes >>

NextMain ==
  \/ ParseArgs
  \/ MainChecks
  \/ MainReadDupes
  \/ MainFindDupes
  \/ FindDupes
  \/ NextSearchDir
  \/ IterEntry
  \/ LookupDupes
  \/ ReturnDupes
  \/ Rescan
  \/ MainScanReturns
  \/ MainFilter
  \/ MainOutput

SpecMain == InitMain /\ [][NextMain]_vars

\* ------------------------------------------------------- src/duplicates.py
\* The standalone script has its own FileMetric, ladder and md5_cache (lines
\* 71-128, the same code as file_metrics.py and dupe_finder.py, modelled by
\* the operators above) and its own DupeFinder (lines 131-187), which
\* differs: symbolic links are skipped in _process_dupes, _lookup_dupes
\* ignores nothing, find_dupes takes one directory and builds its result
\* from another sub-table, with the paths as they were found.

\* The search_dir argument of the script's find_dupes
ScriptRoots == {Top, Sub, Lnk, Missing}

\* str(i) for a Path i: the path as it was built, not resolved
Str(p) == p

\* The script's find_dupes, lines 186-187: the sub-table the result is
\* taken from and the lists of its items
ScriptDupes(fm) ==
  LET dupes_map == MetricMap(fm, MAX - 1)
  IN  [k \in DOMAIN dupes_map |->
        [j \in DOMAIN dupes_map[k].files |-> Str(dupes_map[k].files[j])]]

\* metrics[metric](file) in the script never returns: open() of a fifo for
\* reading waits for a writer, and nothing writes
MetricBlocks(metric, file, cache) ==
  /\ metric # SIZE
  /\ file \notin DOMAIN cache
  /\ fs[file].kind = "fifo"

InitScript ==
  /\ \E idx \in [1..MaxFiles -> DOMAIN NodeList] :
       /\ \A i, j \in 1..MaxFiles :
            (i < j /\ ParentOf(i) = ParentOf(j)) => idx[i] <= idx[j]
       /\ fs = [p \in FilePaths |->
                 NodeList[idx[CHOOSE i \in 1..MaxFiles : FilePathOf(i) = p]]]
  /\ \E search_dir \in ScriptRoots : roots = <<search_dir>>
  /\ run = 1
  /\ op = "script_find_dupes"
  /\ pc = "call"
  /\ error = "none"
  /\ search_dirs = <<>>
  /\ dirIdx = 0
  /\ remaining = {}
  /\ stack = <<>>
  /\ file_map = <<>>
  /\ md5_cache = <<>>
  /\ result = <<>>
  /\ prev = NoPrev
  /\ evals = NoEvals
  /\ hashed = {}
  /\ lookups = <<>>
  /\ iterated = <<>>
  /\ calls = <<>>
  /\ MainIdle

\* The script's find_dupes, lines 180-185: the assertion on the directory,
\* then the call of _process_dupes
ScriptFindDupes ==
  /\ pc = "call" /\ op = "script_find_dupes"
  /\ IF \A k \in DOMAIN roots : RootOk(roots[k])
       THEN /\ pc' = "process"
            /\ search_dirs' = roots
            /\ error' = error
       ELSE /\ pc' = "raised"
            /\ error' = "AssertionError"
            /\ search_dirs' = search_dirs
  /\ UNCHANGED << calls, mainVars >>
  /\ UNCHANGED << fs, roots, run, op, dirIdx, remaining, stack, file_map,
                  md5_cache, result, prev, evals, hashed, lookups, iterated >>

\* The script's _process_dupes, lines 166-167: the for loop takes the next
\* work-list item and lists it
ScriptNextSearchDir ==
  /\ pc = "process" /\ op = "script_find_dupes"
  /\ stack = <<>> /\ remaining = {}
  /\ dirIdx < Len(search_dirs)
  /\ dirIdx' = dirIdx + 1
  /\ remaining' = IterDir(search_dirs[dirIdx + 1])
  /\ iterated' = Append(iterated, search_dirs[dirIdx + 1])
  /\ UNCHANGED << calls, mainVars >>
  /\ UNCHANGED << fs, roots, run, op, pc, error, search_dirs, stack,
                  file_map, md5_cache, result, prev, evals, hashed, lookups >>

\* The script's _process_dupes, lines 167-174: iterdir yields one more
\* entry; a symbolic link is skipped, a directory is appended to the work
\* list, anything else is looked up from MIN
ScriptIterEntry ==
  /\ pc = "process" /\ op = "script_find_dupes" /\ stack = <<>>
  /\ \E i \in remaining :
       /\ remaining' = remaining \ {i}
       /\ IF IsSymlink(i)
            THEN UNCHANGED << search_dirs, stack, lookups >>
            ELSE IF IsDir(i)
              THEN /\ search_dirs' = Append(search_dirs, i)
                   /\ UNCHANGED << stack, lookups >>
              ELSE /\ stack' = <<Call(i, MIN, 1)>>
                   /\ lookups' = Append(lookups, i)
                   /\ search_dirs' = search_dirs
  /\ UNCHANGED << calls, mainVars >>
  /\ UNCHANGED << fs, roots, run, op, pc, error, dirIdx, file_map,
                  md5_cache, result, prev, evals, hashed, iterated >>

\* One call of the script's _lookup_dupes, lines 154-163, up to its
\* recursive calls: the evaluation of the metric (which may raise, or never
\* return), the insertion, and the recursive calls left pending
ScriptLookupDupes ==
  /\ pc = "process" /\ op = "script_find_dupes" /\ stack # <<>>
  /\ LET c == Head(stack)
         file == c.file
         metric == c.metric
     IN
       IF MetricBlocks(metric, file, md5_cache)
         THEN /\ pc' = "blocked"
              /\ evals' = [evals EXCEPT ![<<file, metric>>] = @ + 1]
              /\ UNCHANGED << error, stack, file_map, md5_cache, hashed >>
         ELSE IF MetricRaises(metric, file, md5_cache)
           THEN /\ pc' = "raised"
                /\ error' = "PermissionError"
                /\ stack' = <<>>
                /\ evals' = [evals EXCEPT ![<<file, metric>>] = @ + 1]
                /\ UNCHANGED << file_map, md5_cache, hashed >>
           ELSE LET measure == Measure(metric, file, md5_cache)
                    fm == InsertIntoMetricMap(file_map, metric, measure, file)
                    similar_files == SimilarFiles(fm, metric, measure)
                IN  /\ file_map' = fm
                    /\ evals' = [evals EXCEPT ![<<file, metric>>] = @ + 1]
                    /\ md5_cache' =
                         IF metric = SIZE THEN md5_cache
                         ELSE Md5HashCache(ChunkOf(metric), file, md5_cache)
                    /\ hashed' =
                         IF metric = SIZE THEN hashed
                         ELSE hashed \cup
                                Md5HashReads(ChunkOf(metric), file, md5_cache)
                    /\ stack' = Escalation(similar_files, file, metric, c.depth)
                                  \o Tail(stack)
                    /\ UNCHANGED << pc, error >>
  /\ UNCHANGED << calls, mainVars >>
  /\ UNCHANGED << fs, roots, run, op, search_dirs, dirIdx, remaining,
                  result, prev, lookups, iterated >>

\* The script's find_dupes, lines 186-187: _process_dupes has exhausted
\* the work list and the result is built
ScriptReturnDupes ==
  /\ pc = "process" /\ op = "script_find_dupes"
  /\ stack = <<>> /\ remaining = {}
  /\ dirIdx = Len(search_dirs)
  /\ pc' = "returned"
  /\ result' = ScriptDupes(file_map)
  /\ UNCHANGED << calls, mainVars >>
  /\ UNCHANGED << fs, roots, run, op, error, search_dirs, dirIdx, remaining,
                  stack, file_map, md5_cache, prev, evals, hashed, lookups,
                  iterated >>

NextScript ==
  \/ ScriptFindDupes
  \/ ScriptNextSearchDir
  \/ ScriptIterEntry
  \/ ScriptLookupDupes
  \/ ScriptReturnDupes

SpecScript == InitScript /\ [][NextScript]_vars

\* ------------------------------------------------- vocabulary of the claims
Range(s) == { s[k] : k \in DOMAIN s }

\* The directory entries that are regular files (not links, not fifos)
RegularPaths == { p \in FilePaths : fs[p].kind = "file" }

\* p lies in the tree below directory d (symbolic links are not followed)
Below(p, d) == Len(p) > Len(d) /\ SubSeq(p, 1, Len(d)) = d

\* The regular files of the trees below the roots
ScannedFiles ==
  { p \in RegularPaths : \E k \in DOMAIN roots : Below(p, roots[k]) }

\* The scanned files whose bytes no other scanned file has
UniqueContent ==
  { f \in ScannedFiles :
      \A g \in ScannedFiles \ {f} : fs[g].content # fs[f].content }

\* The regular files whose top-level lookup has started in this operation
Reached == Range(lookups) \cap RegularPaths

\* The positions of the returned groups that hold the file
GroupsOf(f) == { g \in DOMAIN result : Resolve(f) \in Range(result[g]) }

\* A list of groups as an unordered set of unordered member-sets
GroupSets(groups) == { Range(groups[g]) : g \in DOMAIN groups }

\* The lists of the match table at one level
ListsAt(metric) ==
  { MetricMap(file_map, metric)[k].files :
      k \in DOMAIN MetricMap(file_map, metric) }

FindDupesReturned == pc = "returned" /\ op = "find_dupes"

\* ------------------------------------------------------------------ claims
\* C1: when find_dupes has returned, any two distinct regular files with the
\* same size and bytes that were both looked up are held together by exactly
\* one returned group.
C1_Completeness ==
  FindDupesReturned =>
    \A f1, f2 \in Reached :
      (f1 # f2 /\ fs[f1].content = fs[f2].content) =>
        /\ Cardinality(GroupsOf(f1)) = 1
        /\ GroupsOf(f1) \subseteq GroupsOf(f2)

\* C1 witness: a scan has returned a group holding two identical files.
C1_Witness ==
  /\ FindDupesReturned
  /\ \E f1, f2 \in Reached :
       /\ f1 # f2 /\ fs[f1].content = fs[f2].content
       /\ GroupsOf(f1) # {} /\ GroupsOf(f1) = GroupsOf(f2)

\* C2 (as claimed): every returned group has at least two members.
C2_GroupsHaveTwoMembers ==
  pc = "returned" => \A g \in DOMAIN result : Len(result[g]) >= 2

\* C3 (as claimed): a scanned file with unique bytes is in no group returned
\* by find_dupes.
C3_NoFalsePositives ==
  FindDupesReturned => \A f \in UniqueContent : GroupsOf(f) = {}

\* C4 (as claimed): rescan of the list find_dupes returned completes and
\* returns the same group membership.
C4_RescanRoundTrip ==
  (op = "rescan" /\ pc \in {"returned", "raised"}) =>
    /\ pc = "returned"
    /\ GroupSets(result) = GroupSets(prev.result)

\* C5 (as claimed): a file that cannot be opened does not end the scan.
C5_IoFailureNotFatal == ~(pc = "raised" /\ error = "PermissionError")

\* C6 (as claimed): two find_dupes runs of one process over the same tree
\* return the same set of member-sets.
C6_Idempotent ==
  (FindDupesReturned /\ prev.op = "find_dupes" /\ prev.pc = "returned") =>
    GroupSets(result) = GroupSets(prev.result)

\* C7: no symbolic link is ever in a list of the match table or in a
\* returned group, and iterdir is never called on a symbolic link.
C7_SymlinksExcluded ==
  /\ \A m \in DOMAIN file_map : \A l \in ListsAt(m) :
       \A j \in DOMAIN l : ~IsSymlink(l[j])
  /\ \A p \in FilePaths : IsSymlink(p) => GroupsOf(p) = {}
  /\ \A k \in DOMAIN iterated : ~IsSymlink(iterated[k])

\* C7 witness: a scan has returned after looking up a link to a file and
\* after the link to a directory came up in the work list.
C7_Witness ==
  /\ FindDupesReturned
  /\ \E k \in DOMAIN lookups : IsSymlink(lookups[k])
  /\ \E k \in DOMAIN search_dirs : search_dirs[k] = Lnk

\* C8 (as claimed): a looked-up regular file whose size differs from that of
\* every other looked-up regular file has only been evaluated at SIZE and
\* has not been read.
C8_UniqueSizeNeverRead ==
  \A f \in Reached :
    (\A g \in Reached \ {f} : FileSize(g) # FileSize(f)) =>
      /\ evals[<<f, HASH_1K>>] = 0
      /\ evals[<<f, HASH_MD5>>] = 0
      /\ \A h \in hashed : h[1] # f

\* C9 (as claimed): HASH_MD5 is never evaluated for a scanned file with
\* unique bytes.
C9_UniqueContentNeverFullHashed ==
  \A f \in UniqueContent : evals[<<f, HASH_MD5>>] = 0

\* C9 (amended): HASH_MD5 is evaluated for a file only when the file is in a
\* HASH_1K list of two or more entries, that is when its HASH_1K measure is
\* shared; a file whose HASH_1K measure is shared with no other lookup never
\* has HASH_MD5 evaluated.
C9_FullHashOnlyAfterPartialCollision ==
  \A f \in FilePaths :
    evals[<<f, HASH_MD5>>] > 0 =>
      \E l \in ListsAt(HASH_1K) : f \in Range(l) /\ Len(l) >= 2

\* C9 witness: HASH_MD5 has been evaluated for a file with unique bytes (it
\* shares size and first 1024 bytes with another file), while another
\* file evaluated at HASH_1K has not been evaluated at HASH_MD5.
C9_Witness ==
  /\ \E f \in UniqueContent : evals[<<f, HASH_MD5>>] > 0
  /\ \E f \in FilePaths :
       evals[<<f, HASH_1K>>] > 0 /\ evals[<<f, HASH_MD5>>] = 0
  /\ FindDupesReturned

\* C10: every file in a list above SIZE is also in a list of two or more
\* entries one level below, in every state, also in the middle of an
\* escalation.
C10_LevelInvariant ==
  \A m \in DOMAIN file_map : m # SIZE =>
    \A l \in ListsAt(m) : \A j \in DOMAIN l :
      \E lower \in ListsAt(m - 1) : l[j] \in Range(lower) /\ Len(lower) >= 2

\* C10 witness: in the middle of an escalation (calls still pending) a file
\* is already in the HASH_MD5 table.
C10_Witness ==
  /\ stack # <<>>
  /\ ListsAt(HASH_MD5) # {}

\* C11 (as claimed): the hash evaluation about to be made by _lookup_dupes
\* returns the digest of the bytes its metric covers (at most the first
\* MIN_SIZE bytes for HASH_1K, all bytes for HASH_MD5), whatever md5_cache
\* holds.
C11_MeasureIsFunctionOfFile ==
  (/\ pc = "process" /\ stack # <<>>
   /\ ~Ignored(Head(stack).file)
   /\ Head(stack).metric # SIZE
   /\ ~MetricRaises(Head(stack).metric, Head(stack).file, md5_cache)) =>
    Measure(Head(stack).metric, Head(stack).file, md5_cache)
      = Md5(Read(fs[Head(stack).file].content, ChunkOf(Head(stack).metric)))

\* C12: when a root of find_dupes is not a directory or is a symbolic link,
\* find_dupes raises AssertionError with no directory iterated, no file
\* looked up and an empty match table, also when the first root is valid.
C12_RootPrecondition ==
  (/\ op = "find_dupes" /\ pc # "call"
   /\ \E k \in DOMAIN roots : ~(IsDir(roots[k]) /\ ~IsSymlink(roots[k]))) =>
    /\ pc = "raised" /\ error = "AssertionError"
    /\ iterated = <<>> /\ lookups = <<>> /\ file_map = <<>>
    /\ search_dirs = <<>>

\* C12 witness: find_dupes has raised on a list whose first root is valid
\* and whose second root is a symbolic link.
C12_Witness ==
  /\ op = "find_dupes" /\ pc = "raised" /\ error = "AssertionError"
  /\ roots = <<Top, Lnk>>

\* No path has been handed to a top-level lookup twice in this operation
EachLookedUpOnce ==
  \A i, j \in DOMAIN lookups : lookups[i] = lookups[j] => i = j

\* Number of entries of the match table at one level that are the file
Occurrences(metric, f) ==
  LET mm == MetricMap(file_map, metric)
  IN  Cardinality(UNION { { <<k, j>> : j \in { i \in DOMAIN mm[k].files :
                                                 mm[k].files[i] = f } } :
                          k \in DOMAIN mm })

\* Position in lookups of the path from which a returned string comes
DiscoveryIndex(r) == CHOOSE k \in DOMAIN lookups : Resolve(lookups[k]) = r

\* No top-level lookup is in progress and none has raised
LookupReturned == pc \in {"process", "returned"} /\ stack = <<>>

\* C16: once a top-level lookup has returned, every file of a list of two
\* or more entries below HASH_MD5 is in the table one level up.
C16_EscalationClosure ==
  (op = "find_dupes" /\ LookupReturned) =>
    \A m \in {SIZE, HASH_1K} : \A l \in ListsAt(m) :
      Len(l) >= 2 =>
        \A j \in DOMAIN l : \E up \in ListsAt(m + 1) : l[j] \in Range(up)

\* C16 witness: a top-level lookup has returned leaving a SIZE list of three
\* entries (a first member, the file that collided with it and a later
\* arrival) and entries in the HASH_MD5 table.
C16_Witness ==
  /\ op = "find_dupes" /\ pc = "process" /\ stack = <<>>
  /\ \E l \in ListsAt(SIZE) : Len(l) >= 3
  /\ ListsAt(HASH_MD5) # {}

\* C17: while no path has been looked up twice, every file has been
\* evaluated at most once and is at most once in the table at each level.
C17_NoRepeatedWork ==
  EachLookedUpOnce =>
    \A f \in FilePaths : \A m \in FileMetric :
      evals[<<f, m>>] <= 1 /\ Occurrences(m, f) <= 1

\* C17 witness: a scan has returned in which three distinct files shared a
\* size, each was looked up once and all were evaluated at HASH_1K.
C17_Witness ==
  /\ FindDupesReturned /\ EachLookedUpOnce
  /\ \E l \in ListsAt(SIZE) :
       Len(l) >= 3 /\ \A j \in DOMAIN l : evals[<<l[j], HASH_1K>>] = 1

\* C18: after a scan that looked every path up once, the members of every
\* returned group are in the order their top-level lookups started.
C18_GroupOrderIsDiscoveryOrder ==
  (FindDupesReturned /\ EachLookedUpOnce) =>
    \A g \in DOMAIN result : \A i, j \in DOMAIN result[g] :
      i < j => DiscoveryIndex(result[g][i]) < DiscoveryIndex(result[g][j])

\* C18 witness: a returned group of three members whose first member
\* was looked up before any other file of its size (so it was escalated
\* late), in a scan that looked every path up once.
C18_Witness ==
  /\ FindDupesReturned /\ EachLookedUpOnce
  /\ \E g \in DOMAIN result : Len(result[g]) >= 3

\* C20 (as claimed): no path string occurs twice in the groups find_dupes
\* returns.
C20_NoPathTwice ==
  FindDupesReturned =>
    \A g, h \in DOMAIN result :
      \A i \in DOMAIN result[g] : \A j \in DOMAIN result[h] :
        result[g][i] = result[h][j] => (g = h /\ i = j)

\* C19: every pending call of _lookup_dupes is at most 3 calls deep, every
\* scan that has entered _process_dupes ends (by returning, or by the
\* exception of a file that cannot be read), and a scan that returns has
\* exhausted the work list it appended to.
C19_Termination ==
  /\ [](\A k \in DOMAIN stack : stack[k].depth <= 3)
  /\ [](FindDupesReturned => (dirIdx = Len(search_dirs) /\ remaining = {}))
  /\ (pc = "process") ~> (pc \in {"returned", "raised"})

\* C19 witness: a scan has returned whose work list grew during the
\* iteration and in which a lookup went down to the third call (HASH_MD5).
C19_Witness ==
  /\ FindDupesReturned
  /\ Len(search_dirs) > Len(roots)
  /\ \E f \in FilePaths : evals[<<f, HASH_MD5>>] >= 1

\* C14: every call of next on a member returns the value one level above
\* it, or the member's own value at HASH_MD5; every call of prev returns
\* the value one level below, or the member's own value at SIZE; every
\* result is the value of a member (no call raises, none wraps around).
C14_NextPrevSaturate ==
  \A k \in DOMAIN calls :
    LET c == calls[k] IN
      /\ c.value \in FileMetric
      /\ c.fn = "next" =>
           c.value = (IF c.m = HASH_MD5 THEN HASH_MD5 ELSE c.m + 1)
      /\ c.fn = "prev" =>
           c.value = (IF c.m = SIZE THEN SIZE ELSE c.m - 1)

\* C14 witness: next has been called on HASH_MD5 and prev on SIZE (the two
\* saturating calls) and next on a member below the top.
C14_Witness ==
  /\ \E k \in DOMAIN calls : calls[k].fn = "next" /\ calls[k].m = HASH_MD5
  /\ \E k \in DOMAIN calls : calls[k].fn = "prev" /\ calls[k].m = SIZE
  /\ \E k \in DOMAIN calls : calls[k].fn = "next" /\ calls[k].m = SIZE

\* main has applied _filter with a pattern
Filtered == mpc \in {"output", "done", "raised"} /\ args.filter_pattern.given

\* The strings of a group that the pattern matches
Matching(g, pattern) == { k \in DOMAIN g : g[k] \in pattern.matches }

\* What _filter appended for one input group (<<>> when it appended nothing)
OutputOf(g, pattern) ==
  LET o == FilterDupeList(g, pattern) IN IF o = <<>> THEN <<>> ELSE o[1]

\* C13 (as claimed): for every input group of two or more paths _filter
\* outputs nothing when no member matches, the matching members in their
\* order when some but not all match, all members but the last when all
\* match; and the output group never contains every member of its input
\* group.
C13_FilterResult ==
  Filtered =>
    /\ filtered_dupes = Filter(dupes, args.filter_pattern)
    /\ \A k \in DOMAIN dupes :
         LET g == dupes[k]
             pattern == args.filter_pattern
             Hit(i) == i \in pattern.matches
             out == OutputOf(g, pattern)
         IN  Len(g) >= 2 =>
               /\ Matching(g, pattern) = {} => out = <<>>
               /\ (Matching(g, pattern) # {}
                     /\ Matching(g, pattern) # DOMAIN g) =>
                    out = SelectSeq(g, Hit)
               /\ Matching(g, pattern) = DOMAIN g =>
                    out = SubSeq(g, 1, Len(g) - 1)
               /\ ~(Range(g) \subseteq Range(out))

\* C15: when both directories and an input file are given, or the output
\* path exists, main never gets past its checks: no read, scan, rescan or
\* write is started, no DupeFinder operation is called, and main ends by
\* the usage exit or an AssertionError.
C15_FatalChecksFirst ==
  ((args.search_dir # <<>> /\ args.in_file # "none")
     \/ args.out_file = "exists") =>
    /\ mpc \in {"idle", "parse", "check", "exit", "raised"}
    /\ mpc = "raised" => merror = "AssertionError"
    /\ events = <<>> /\ written = <<>>
    /\ pc = "idle" /\ lookups = <<>> /\ iterated = <<>>

\* C15 witness: main has failed on the existing output path alone, with
\* directories to search and no input file.
C15_Witness ==
  /\ mpc = "raised" /\ merror = "AssertionError"
  /\ args.out_file = "exists"
  /\ args.search_dir # <<>> /\ args.in_file = "none"

\* The digest of the whole content of a file, read from the tree itself
FullHashOf(p) == Md5(fs[p].content)

\* C21 (as claimed): every group the script's find_dupes returns consists
\* of files whose FULL_HASH measures (the digests of their whole contents)
\* are equal.
C21_ScriptGroupsShareFullHash ==
  (op = "script_find_dupes" /\ pc = "returned") =>
    \A g \in DOMAIN result : \A i, j \in DOMAIN result[g] :
      FullHashOf(result[g][i]) = FullHashOf(result[g][j])
====
